---- MODULE Spec2Model ----
(***************************************************************************)
(* Inventory page (src/src/app/page.tsx, current revision, lines 1-827):   *)
(* the in-memory item list, the real-time change ledger, the edit/delete   *)
(* dialogs, CSV import/export, the sorted view and the per-name summary.   *)
(*                                                                         *)
(* Strings are sequences of one-character strings, so that trim(), split() *)
(* and the comparisons of the code are computed, not assumed.  The value   *)
(* undefined of an optional string is the one-element sequence Undefined,  *)
(* whose element is no character of any input.                             *)
(***************************************************************************)
EXTENDS Integers, Sequences, FiniteSets, TLC

\* ------------------------------------------------------------------ bounds
MaxItems == 2      \* items in the list
MaxIds == 3        \* ids to draw fresh ids from
MaxQty == 2        \* largest quantity
MinQty == 1        \* magnitude of the smallest (negative) quantity
MaxRows == 2       \* rows of one imported file
MaxViewItems == 3  \* items of a list drawn for the view (sort, summary, export)
MaxTransactions == 2  \* saves requested and not yet done
MaxStored == 1     \* items of the store a page is mounted on
MaxChange == 2     \* magnitude of a ledger entry of the earlier revision
MaxTimers == 3     \* timers started and not yet fired
MaxDrift == 1      \* distance of a quantity from the one the page starts with

\* ----------------------------------------------------------------- strings
Undefined == <<"undefined">>

IsWhiteSpace(c) == c = " "

RECURSIVE TrimStart(_)
TrimStart(s) ==
    IF s = <<>> THEN <<>>
    ELSE IF IsWhiteSpace(Head(s)) THEN TrimStart(Tail(s)) ELSE s

RECURSIVE TrimEnd(_)
TrimEnd(s) ==
    IF s = <<>> THEN <<>>
    ELSE IF IsWhiteSpace(s[Len(s)]) THEN TrimEnd(SubSeq(s, 1, Len(s) - 1)) ELSE s

\* String.prototype.trim
Trim(s) == TrimEnd(TrimStart(s))

\* `x || ''` on an optional string: undefined and '' both give ''
OrEmpty(t) == IF t = Undefined \/ t = <<>> THEN <<>> ELSE t

\* `x?.trim() || ''`
TrimOrEmpty(t) == IF t = Undefined THEN <<>> ELSE Trim(t)

\* `x === '' ? undefined : x` and `x?.trim() || undefined`
OrUndefined(t) == IF t = Undefined \/ t = <<>> THEN Undefined ELSE t


\* ------------------------------------------------------------------- state
VARIABLES
    inventory,                 \* useState<InventoryItem[]>: sequence of items
    realTimeChanges,           \* useState<{[itemId]: number}>: the ledger
    selectedItem,              \* id of the selected item, Null when null
    isEditDialogOpen,
    isDeleteConfirmationOpen,
    sortColumn,
    sortDirection,
    newItemFields,             \* newItemName, newItemQuantity, newItemTag
    store,                     \* the object store 'inventory-store': id -> item
    transactions,              \* the database transactions requested, oldest first
    timers                     \* ids of the pending setTimeout callbacks, oldest first

vars == <<inventory, realTimeChanges, selectedItem, isEditDialogOpen,
          isDeleteConfirmationOpen, sortColumn, sortDirection,
          newItemFields, store, transactions, timers>>

\* the database and the timers, which no handler of the current revision
\* reads or writes (the effects do; the timers are those of the revision with
\* auto-clear)
background == <<store, transactions, timers>>

Null == 0
Ids == 1..MaxIds
NotFound == 0                  \* findIndex's -1 (indices start at 1 here)

\* interface InventoryItem { id; name; quantity; tag? }
InventoryItem(id, name, quantity, tag) ==
    [id |-> id, name |-> name, quantity |-> quantity, tag |-> tag]

NoChanges == [x \in {} |-> 0]

\* `prevChanges[id] || 0`
ChangeOf(changes, id) == IF id \in DOMAIN changes THEN changes[id] ELSE 0

\* `{ ...prevChanges, [id]: value }`
WithChange(changes, id, value) ==
    [x \in DOMAIN changes \cup {id} |-> IF x = id THEN value ELSE changes[x]]

\* `delete newChanges[id]` on a copy
WithoutChange(changes, id) == [x \in DOMAIN changes \ {id} |-> changes[x]]

IndexSet(inv) == 1..Len(inv)
ItemIds(inv) == {inv[i].id : i \in IndexSet(inv)}

\* inventory.findIndex(item => item.name === name && (item.tag || '') === tag)
FindIndex(inv, name, tag) ==
    LET hits == {i \in IndexSet(inv) : inv[i].name = name /\ OrEmpty(inv[i].tag) = tag}
    IN  IF hits = {} THEN NotFound ELSE CHOOSE i \in hits : \A j \in hits : i <= j

\* inventory.find(item => item.id === id), as an index
FindById(inv, id) ==
    LET hits == {i \in IndexSet(inv) : inv[i].id = id}
    IN  IF hits = {} THEN NotFound ELSE CHOOSE i \in hits : \A j \in hits : i <= j

\* Date.now().toString() + Math.random().toString(36)...: an id that no part
\* of the state holds.  Which of the unused ids is drawn cannot be observed,
\* so the least one is drawn; Null when the bound leaves none.
UsedIds(inv, changes, selected) == ItemIds(inv) \cup DOMAIN changes \cup {selected}
FreshId(used) ==
    IF Ids \ used = {} THEN Null
    ELSE CHOOSE id \in Ids \ used : \A other \in Ids \ used : id <= other

\* Both dialogs are modal: while one is open the page behind it takes no click.
NoDialogOpen == ~isEditDialogOpen /\ ~isDeleteConfirmationOpen

\* useState(''), useState(0), useState<string | undefined>('')
BlankFields == [newItemName |-> <<>>, newItemQuantity |-> 0, newItemTag |-> <<>>]

\* an empty object store
NoStore == [id \in {} |-> <<>>]

\* The component state of a page that was mounted on an empty store, the load
\* and the save of the mount done.
Init ==
    /\ inventory = <<>>
    /\ realTimeChanges = NoChanges
    /\ selectedItem = Null
    /\ isEditDialogOpen = FALSE
    /\ isDeleteConfirmationOpen = FALSE
    /\ sortColumn = "name"
    /\ sortDirection = "asc"
    /\ newItemFields = BlankFields
    /\ store = NoStore
    /\ transactions = <<>>
    /\ timers = <<>>

\* what the bounds allow a list to be
WithinBounds(inv) ==
    /\ Len(inv) <= MaxItems
    /\ \A i \in IndexSet(inv) :
          /\ inv[i].quantity <= MaxQty
          /\ inv[i].quantity >= 0 - MinQty
          /\ inv[i].id \in Ids

\* --------------------------------------------------------------------- Add
\* the validation that checks the name alone
AddRejected_NameOnly(newItemName, newItemQuantity) == Trim(newItemName) = <<>>

\* the validation of handleAddItem
AddRejected(newItemName, newItemQuantity) ==
    Trim(newItemName) = <<>> \/ newItemQuantity <= 0

\* handleAddItem with `item.tag === trimmedNewItemTag`: a tag stored as
\* undefined is not matched by the empty tag of the form
AddedInventory_TagNotNormalized(inv, newId, newItemName, newItemQuantity, newItemTag) ==
    LET trimmedNewItemName == Trim(newItemName)
        trimmedNewItemTag == TrimOrEmpty(newItemTag)
        hits == {i \in IndexSet(inv) :
                    inv[i].name = trimmedNewItemName /\ inv[i].tag = trimmedNewItemTag}
    IN  IF hits # {}
        THEN [index \in IndexSet(inv) |->
                 IF index = (CHOOSE i \in hits : \A j \in hits : i <= j)
                 THEN [inv[index] EXCEPT !.quantity = @ + newItemQuantity]
                 ELSE inv[index]]
        ELSE Append(inv, InventoryItem(newId, trimmedNewItemName, newItemQuantity,
                                       OrUndefined(trimmedNewItemTag)))

\* the list handleAddItem sets for an accepted input; newId is the fresh id
AddedInventory(inv, newId, newItemName, newItemQuantity, newItemTag) ==
    LET trimmedNewItemName == Trim(newItemName)
        trimmedNewItemTag == TrimOrEmpty(newItemTag)
        existingItemIndex == FindIndex(inv, trimmedNewItemName, trimmedNewItemTag)
    IN  IF existingItemIndex # NotFound
        THEN [index \in IndexSet(inv) |->
                 IF index = existingItemIndex
                 THEN [inv[index] EXCEPT !.quantity = @ + newItemQuantity]
                 ELSE inv[index]]
        ELSE Append(inv, InventoryItem(newId, trimmedNewItemName, newItemQuantity,
                                       OrUndefined(trimmedNewItemTag)))

\* handleAddItem that registers a new item with its quantity as its change
AddedChanges_NewItemLedgered(inv, changes, newId, newItemName, newItemQuantity, newItemTag) ==
    LET existingItemIndex == FindIndex(inv, Trim(newItemName), TrimOrEmpty(newItemTag))
    IN  IF existingItemIndex # NotFound
        THEN WithChange(changes, inv[existingItemIndex].id,
                        ChangeOf(changes, inv[existingItemIndex].id) + newItemQuantity)
        ELSE WithChange(changes, newId, newItemQuantity)

\* the ledger handleAddItem sets for an accepted input
AddedChanges(inv, changes, newId, newItemName, newItemQuantity, newItemTag) ==
    LET existingItemIndex == FindIndex(inv, Trim(newItemName), TrimOrEmpty(newItemTag))
    IN  IF existingItemIndex # NotFound
        THEN LET existingItemId == inv[existingItemIndex].id
             IN  WithChange(changes, existingItemId,
                            ChangeOf(changes, existingItemId) + newItemQuantity)
        ELSE WithChange(changes, newId, 0)

handleAddItem(newItemName, newItemQuantity, newItemTag) ==
    /\ NoDialogOpen
    /\ IF AddRejected(newItemName, newItemQuantity)
       THEN /\ UNCHANGED <<inventory, realTimeChanges, newItemFields>>
       ELSE LET existingItemIndex ==
                    FindIndex(inventory, Trim(newItemName), TrimOrEmpty(newItemTag))
                newId == FreshId(UsedIds(inventory, realTimeChanges, selectedItem))
            IN  /\ inventory' = AddedInventory(inventory, newId, newItemName,
                                               newItemQuantity, newItemTag)
                /\ WithinBounds(inventory')
                /\ realTimeChanges' = AddedChanges(inventory, realTimeChanges, newId,
                                                   newItemName, newItemQuantity, newItemTag)
                /\ newItemFields' = BlankFields
    /\ UNCHANGED <<selectedItem, isEditDialogOpen, isDeleteConfirmationOpen,
                   sortColumn, sortDirection>>


\* -------------------------------------------------------------------- Edit
\* handleEditItem(item): the row's edit button
handleEditItem(id) ==
    /\ NoDialogOpen
    /\ id \in ItemIds(inventory)
    /\ selectedItem' = id
    /\ isEditDialogOpen' = TRUE
    /\ UNCHANGED <<inventory, realTimeChanges, isDeleteConfirmationOpen,
                   sortColumn, sortDirection,
                   newItemFields>>

\* the list handleUpdateItem sets
UpdatedInventory(inv, id, editedItemName, editedItemQuantity, editedItemTag) ==
    LET trimmedEditedTag == TrimOrEmpty(editedItemTag)
    IN  [i \in IndexSet(inv) |->
            IF inv[i].id = id
            THEN [inv[i] EXCEPT !.name = Trim(editedItemName),
                                !.quantity = editedItemQuantity,
                                !.tag = OrUndefined(trimmedEditedTag)]
            ELSE inv[i]]

\* handleUpdateItem that sets the ledger entry to the change of this edit
UpdatedChanges_Overwrites(inv, changes, id, editedItemQuantity) ==
    WithChange(changes, id, editedItemQuantity - inv[FindById(inv, id)].quantity)

\* the ledger handleUpdateItem sets; the item is in the list
UpdatedChanges(inv, changes, id, editedItemQuantity) ==
    LET originalItem == inv[FindById(inv, id)]
        quantityChange == editedItemQuantity - originalItem.quantity
    IN  WithChange(changes, id, ChangeOf(changes, id) + quantityChange)

\* the dialog's save button
handleUpdateItem(editedItemName, editedItemQuantity, editedItemTag) ==
    /\ isEditDialogOpen
    /\ IF selectedItem = Null \/ FindById(inventory, selectedItem) = NotFound
       THEN /\ UNCHANGED <<inventory, realTimeChanges, selectedItem, isEditDialogOpen>>
       ELSE /\ inventory' = UpdatedInventory(inventory, selectedItem, editedItemName,
                                             editedItemQuantity, editedItemTag)
            /\ realTimeChanges' = UpdatedChanges(inventory, realTimeChanges, selectedItem,
                                                 editedItemQuantity)
            /\ isEditDialogOpen' = FALSE
            /\ selectedItem' = Null
    /\ UNCHANGED <<isDeleteConfirmationOpen, sortColumn, sortDirection,
                   newItemFields>>

\* the edit dialog's cancel button and onOpenChange: setIsEditDialogOpen(false)
cancelEdit ==
    /\ isEditDialogOpen
    /\ isEditDialogOpen' = FALSE
    /\ UNCHANGED <<inventory, realTimeChanges, selectedItem, isDeleteConfirmationOpen,
                   sortColumn, sortDirection,
                   newItemFields>>

\* ------------------------------------------------------------------ Delete
\* handleDeleteItem(item): the row's delete button
handleDeleteItem(id) ==
    /\ NoDialogOpen
    /\ id \in ItemIds(inventory)
    /\ selectedItem' = id
    /\ isDeleteConfirmationOpen' = TRUE
    /\ UNCHANGED <<inventory, realTimeChanges, isEditDialogOpen,
                   sortColumn, sortDirection,
                   newItemFields>>

\* prevInventory.filter(item => item.id !== id)
RECURSIVE DeletedInventory(_, _)
DeletedInventory(inv, id) ==
    IF inv = <<>> THEN <<>>
    ELSE IF Head(inv).id # id
         THEN <<Head(inv)>> \o DeletedInventory(Tail(inv), id)
         ELSE DeletedInventory(Tail(inv), id)

\* confirmDeleteItem without the `delete newChanges[selectedItem.id]`
DeletedChanges_EntryKept(changes, id) == changes

\* the ledger confirmDeleteItem sets
DeletedChanges(changes, id) == WithoutChange(changes, id)

\* the confirmation dialog's delete button
confirmDeleteItem ==
    /\ isDeleteConfirmationOpen
    /\ IF selectedItem = Null
       THEN /\ UNCHANGED <<inventory, realTimeChanges, selectedItem,
                           isDeleteConfirmationOpen>>
       ELSE /\ inventory' = DeletedInventory(inventory, selectedItem)
            /\ realTimeChanges' = DeletedChanges(realTimeChanges, selectedItem)
            /\ isDeleteConfirmationOpen' = FALSE
            /\ selectedItem' = Null
    /\ UNCHANGED <<isEditDialogOpen, sortColumn, sortDirection,
                   newItemFields>>

\* the confirmation dialog's cancel button and onOpenChange
cancelDelete ==
    /\ isDeleteConfirmationOpen
    /\ isDeleteConfirmationOpen' = FALSE
    /\ UNCHANGED <<inventory, realTimeChanges, selectedItem, isEditDialogOpen,
                   sortColumn, sortDirection,
                   newItemFields>>

\* ---------------------------------------------------------- AdjustQuantity
Max(a, b) == IF a >= b THEN a ELSE b

\* the quantity handleQuantityChange computes from the item it found
NewQuantity(originalQuantity, change) == Max(0, originalQuantity + change)

\* a quantity change that sets the quantity of every item of the item's name
ChangedInventory_ByName(inv, itemId, change) ==
    LET originalItem == inv[FindById(inv, itemId)]
        newQuantity == NewQuantity(originalItem.quantity, change)
    IN  [i \in IndexSet(inv) |->
            IF inv[i].name = originalItem.name THEN [inv[i] EXCEPT !.quantity = newQuantity]
            ELSE inv[i]]

\* the list handleQuantityChange sets; the item is in the list
ChangedInventory(inv, itemId, change) ==
    LET originalQuantity == inv[FindById(inv, itemId)].quantity
        newQuantity == NewQuantity(originalQuantity, change)
    IN  [i \in IndexSet(inv) |->
            IF inv[i].id = itemId THEN [inv[i] EXCEPT !.quantity = newQuantity]
            ELSE inv[i]]

\* handleQuantityChange that ledgers the requested change, not the applied one
ChangedChanges_RequestedChange(inv, changes, itemId, change) ==
    WithChange(changes, itemId, ChangeOf(changes, itemId) + change)

\* the ledger handleQuantityChange sets; the item is in the list
ChangedChanges(inv, changes, itemId, change) ==
    LET originalQuantity == inv[FindById(inv, itemId)].quantity
        newQuantity == NewQuantity(originalQuantity, change)
        actualChangeApplied == newQuantity - originalQuantity
    IN  IF actualChangeApplied # 0
        THEN WithChange(changes, itemId, ChangeOf(changes, itemId) + actualChangeApplied)
        ELSE changes

handleQuantityChange(itemId, change) ==
    /\ NoDialogOpen
    /\ IF FindById(inventory, itemId) = NotFound
       THEN /\ UNCHANGED <<inventory, realTimeChanges>>
       ELSE /\ inventory' = ChangedInventory(inventory, itemId, change)
            /\ WithinBounds(inventory')
            /\ realTimeChanges' = ChangedChanges(inventory, realTimeChanges, itemId, change)
    /\ UNCHANGED <<selectedItem, isEditDialogOpen, isDeleteConfirmationOpen,
                   sortColumn, sortDirection,
                   newItemFields>>


\* ------------------------------------------------------------------ Number
Digits == <<"0", "1", "2", "3", "4", "5", "6", "7", "8", "9">>
IsDigit(c) == \E d \in 1..Len(Digits) : Digits[d] = c
DigitValue(c) == (CHOOSE d \in 1..Len(Digits) : Digits[d] = c) - 1
IsDigits(s) == s # <<>> /\ \A i \in 1..Len(s) : IsDigit(s[i])

RECURSIVE DigitsValue(_)
DigitsValue(s) ==
    IF s = <<>> THEN 0
    ELSE 10 * DigitsValue(SubSeq(s, 1, Len(s) - 1)) + DigitValue(s[Len(s)])

\* Number(text) is a number and not NaN: blank, or an optionally signed
\* run of decimal digits, with white space around it
IsNumeric(text) ==
    LET t == Trim(text)
    IN  \/ t = <<>>
        \/ IsDigits(t)
        \/ Head(t) \in {"-", "+"} /\ IsDigits(Tail(t))

\* Number(text) where IsNumeric(text)
NumberOf(text) ==
    LET t == Trim(text)
    IN  IF t = <<>> THEN 0
        ELSE IF Head(t) = "-" THEN 0 - DigitsValue(Tail(t))
        ELSE IF Head(t) = "+" THEN DigitsValue(Tail(t))
        ELSE DigitsValue(t)

\* `Number(row.quantity) || 0`: NaN and 0 both give 0
ParsedQuantity(text) == IF IsNumeric(text) THEN NumberOf(text) ELSE 0

RECURSIVE NatToString(_)
NatToString(n) ==
    IF n < 10 THEN <<Digits[n + 1]>>
    ELSE NatToString(n \div 10) \o <<Digits[(n % 10) + 1]>>

\* String(n) of an integer, as a CSV field holds it
NumberToString(n) == IF n < 0 THEN <<"-">> \o NatToString(0 - n) ELSE NatToString(n)

\* ------------------------------------------------------------------ Import
\* a parsed row: each of name, quantity, tag is a string or Undefined
Row(name, quantity, tag) == [name |-> name, quantity |-> quantity, tag |-> tag]

\* the filter of handleImportCSV: the row has a name and a quantity field
RowAccepted(row) ==
    /\ row.name # Undefined /\ row.name # <<>>
    /\ Trim(row.name) # <<>>
    /\ row.quantity # Undefined

\* results.data.filter(...): the accepted rows, in file order
RECURSIVE AcceptedRows(_)
AcceptedRows(data) ==
    IF data = <<>> THEN <<>>
    ELSE IF RowAccepted(Head(data))
         THEN <<Head(data)>> \o AcceptedRows(Tail(data))
         ELSE AcceptedRows(Tail(data))

\* the item the map of handleImportCSV makes of an accepted row
ImportedItem(id, row) ==
    InventoryItem(id, Trim(row.name), ParsedQuantity(row.quantity),
                  OrUndefined(TrimOrEmpty(row.tag)))

\* the merge that looks each row up in the list as it was before the import
RECURSIVE MergeAgainst(_, _, _, _, _)
MergeAgainst(rows, prevInventory, mergedInventory, changesToApply, used) ==
    IF rows = <<>>
    THEN [mergedInventory |-> mergedInventory, changesToApply |-> changesToApply]
    ELSE LET newItem == ImportedItem(FreshId(used), Head(rows))
             existingIndex == FindIndex(prevInventory, newItem.name, OrEmpty(newItem.tag))
         IN  IF existingIndex # NotFound
             THEN MergeAgainst(Tail(rows), prevInventory,
                      [mergedInventory EXCEPT
                          ![existingIndex].quantity = @ + newItem.quantity],
                      WithChange(changesToApply, mergedInventory[existingIndex].id,
                          ChangeOf(changesToApply, mergedInventory[existingIndex].id)
                              + newItem.quantity),
                      used)
             ELSE MergeAgainst(Tail(rows), prevInventory, Append(mergedInventory, newItem),
                               WithChange(changesToApply, newItem.id, 0),
                               used \cup {newItem.id})

MergeImported_AgainstPreviousList(rows, mergedInventory, changesToApply, used) ==
    MergeAgainst(rows, mergedInventory, mergedInventory, changesToApply, used)

\* importedInventory.forEach(...) on the copy of the previous list: rows not yet
\* merged, the merged list so far, the changes tracked so far, the ids in use.
\* An id is drawn for a row when the row is pushed: the id the code gave a row
\* that is merged into an item is never stored.
RECURSIVE MergeImported(_, _, _, _)
MergeImported(rows, mergedInventory, changesToApply, used) ==
    IF rows = <<>>
    THEN [mergedInventory |-> mergedInventory, changesToApply |-> changesToApply]
    ELSE LET newItem == ImportedItem(FreshId(used), Head(rows))
             existingIndex == FindIndex(mergedInventory, newItem.name, OrEmpty(newItem.tag))
         IN  IF existingIndex # NotFound
             THEN LET existingId == mergedInventory[existingIndex].id
                      originalQuantity == mergedInventory[existingIndex].quantity
                      merged == [mergedInventory EXCEPT
                                    ![existingIndex].quantity = @ + newItem.quantity]
                  IN  MergeImported(Tail(rows), merged,
                          WithChange(changesToApply, existingId,
                              ChangeOf(changesToApply, existingId)
                                  + (merged[existingIndex].quantity - originalQuantity)),
                          used)
             ELSE MergeImported(Tail(rows), Append(mergedInventory, newItem),
                                WithChange(changesToApply, newItem.id, 0),
                                used \cup {newItem.id})

\* the ledger set to the changes of this import, not added to the entries
AppliedChanges_Overwrites(prevChanges, changesToApply) ==
    [itemId \in DOMAIN prevChanges \cup DOMAIN changesToApply |->
        IF itemId \in DOMAIN changesToApply THEN changesToApply[itemId]
        ELSE prevChanges[itemId]]

\* the ledger the import sets: `for (const itemId in changesToApply) ...`
AppliedChanges(prevChanges, changesToApply) ==
    [itemId \in DOMAIN prevChanges \cup DOMAIN changesToApply |->
        IF itemId \notin DOMAIN changesToApply THEN prevChanges[itemId]
        ELSE IF itemId \in DOMAIN prevChanges \/ changesToApply[itemId] # 0
             THEN ChangeOf(prevChanges, itemId) + changesToApply[itemId]
             ELSE 0]

\* the merge of the rows of a parsed file into a list
Imported(inv, changes, used, data) ==
    LET m == MergeImported(AcceptedRows(data), inv, NoChanges, used)
    IN  [inventory |-> m.mergedInventory,
         realTimeChanges |-> AppliedChanges(changes, m.changesToApply)]

\* ---- the updater of setInventory, with the records it shares
\* results.data.filter(...).map(...): the items of the accepted rows, each with
\* the id the map draws for it
RECURSIVE MappedRows(_, _)
MappedRows(rows, used) ==
    IF rows = <<>> THEN <<>>
    ELSE LET id == FreshId(used)
         IN  <<ImportedItem(id, Head(rows))>> \o MappedRows(Tail(rows), used \cup {id})

\* A list is an array of references to item records.  `[...currentInventory]`
\* copies the references, so mergedInventory[i] is the record prevInventory[i];
\* push(newItem) adds a reference to the record importedInventory[k].
Record(records, ref) == records[ref.of][ref.at]

\* importedInventory.forEach(...) from the k-th item on: `+=` writes the record
\* that mergedInventory[existingIndex] refers to
RECURSIVE ForEachImported(_, _, _)
ForEachImported(k, records, mergedInventory) ==
    IF k > Len(records.importedInventory)
    THEN [records |-> records, mergedInventory |-> mergedInventory]
    ELSE LET newItem == records.importedInventory[k]
             hits == {p \in 1..Len(mergedInventory) :
                         /\ Record(records, mergedInventory[p]).name = newItem.name
                         /\ OrEmpty(Record(records, mergedInventory[p]).tag)
                                = OrEmpty(newItem.tag)}
         IN  IF hits # {}
             THEN LET existingIndex == CHOOSE p \in hits : \A o \in hits : p <= o
                      ref == mergedInventory[existingIndex]
                  IN  ForEachImported(k + 1,
                          [records EXCEPT ![ref.of][ref.at].quantity = @ + newItem.quantity],
                          mergedInventory)
             ELSE ForEachImported(k + 1, records,
                      Append(mergedInventory, [of |-> "importedInventory", at |-> k]))

\* One evaluation of the updater `prevInventory => {...; return mergedInventory}`:
\* the list it returns, and the records of prevInventory and of
\* importedInventory as the evaluation leaves them.
ImportUpdater(prevInventory, importedInventory) ==
    LET run == ForEachImported(1,
                   [prevInventory |-> prevInventory,
                    importedInventory |-> importedInventory],
                   [i \in 1..Len(prevInventory) |-> [of |-> "prevInventory", at |-> i]])
    IN  [mergedInventory |->
             [p \in 1..Len(run.mergedInventory) |->
                 Record(run.records, run.mergedInventory[p])],
         prevInventory |-> run.records.prevInventory,
         importedInventory |-> run.records.importedInventory]

\* the rows a new item or a merge can come from
RowInputs ==
    { Row(<<" ", "a">>, <<"1">>, <<" ">>),
      Row(<<"a">>, <<"x">>, <<>>),
      Row(<<"a">>, <<"-", "1">>, <<"r", " ">>),
      Row(<<" ">>, <<"1">>, <<>>),
      Row(<<"a">>, Undefined, <<"r">>),
      Row(<<"a">>, <<"1">>, Undefined) }

\* a file has its columns in every row or in none
SameColumns(data) ==
    \A i, j \in 1..Len(data) :
        /\ (data[i].name = Undefined) = (data[j].name = Undefined)
        /\ (data[i].quantity = Undefined) = (data[j].quantity = Undefined)
        /\ (data[i].tag = Undefined) = (data[j].tag = Undefined)

\* results.data of the files a user may import
ParsedFiles ==
    {data \in UNION {[1..n -> RowInputs] : n \in 0..MaxRows} : SameColumns(data)}

\* what Papa.parse hands to `complete`: the rows, and whether errors is non-empty
\* (rows parsed before the error are still in data)
ParseResults ==
    {[data |-> data, errors |-> FALSE] : data \in ParsedFiles}
        \cup {[data |-> data, errors |-> TRUE] : data \in {d \in ParsedFiles : Len(d) = 1}}

\* the completion callback without the check of results.errors
handleImportCSV_IgnoresErrors(results) ==
    /\ \E result \in {Imported(inventory, realTimeChanges,
                                UsedIds(inventory, realTimeChanges, selectedItem),
                                results.data)} :
          /\ WithinBounds(result.inventory)
          /\ inventory' = result.inventory
          /\ realTimeChanges' = result.realTimeChanges
    /\ UNCHANGED <<selectedItem, isEditDialogOpen, isDeleteConfirmationOpen,
                   sortColumn, sortDirection, newItemFields>>

\* Papa.parse's complete callback with results = {data, errors}
handleImportCSV(results) ==
    /\ IF results.errors
       THEN /\ UNCHANGED <<inventory, realTimeChanges>>
       ELSE \E result \in {Imported(inventory, realTimeChanges,
                                     UsedIds(inventory, realTimeChanges, selectedItem),
                                     results.data)} :
                /\ WithinBounds(result.inventory)
                /\ inventory' = result.inventory
                /\ realTimeChanges' = result.realTimeChanges
    /\ UNCHANGED <<selectedItem, isEditDialogOpen, isDeleteConfirmationOpen,
                   sortColumn, sortDirection,
                   newItemFields>>

\* ------------------------------------------------------------------ Export
\* the data handleExportCSV hands to Papa.unparse, as the fields of the file
ExportedRows(inv) ==
    [i \in IndexSet(inv) |->
        Row(inv[i].name, NumberToString(inv[i].quantity), OrEmpty(inv[i].tag))]

\* an empty list is not exported
ExportRefused(inv) == Len(inv) = 0

handleExportCSV ==
    /\ NoDialogOpen
    /\ UNCHANGED <<inventory, realTimeChanges, selectedItem, isEditDialogOpen,
                   isDeleteConfirmationOpen, sortColumn, sortDirection,
                   newItemFields>>


\* -------------------------------------------------------------------- Sort
\* a click that keeps the direction when the column changes
handleSort_KeepsDirection(column) ==
    /\ NoDialogOpen
    /\ IF column = sortColumn
       THEN /\ sortDirection' = (IF sortDirection = "asc" THEN "desc" ELSE "asc")
            /\ UNCHANGED sortColumn
       ELSE /\ sortColumn' = column
            /\ UNCHANGED sortDirection
    /\ UNCHANGED <<inventory, realTimeChanges, selectedItem, isEditDialogOpen,
                   isDeleteConfirmationOpen,
                   newItemFields>>

\* a click on a column header
handleSort(column) ==
    /\ NoDialogOpen
    /\ IF column = sortColumn
       THEN /\ sortDirection' = (IF sortDirection = "asc" THEN "desc" ELSE "asc")
            /\ UNCHANGED sortColumn
       ELSE /\ sortColumn' = column
            /\ sortDirection' = "asc"
    /\ UNCHANGED <<inventory, realTimeChanges, selectedItem, isEditDialogOpen,
                   isDeleteConfirmationOpen,
                   newItemFields>>

\* The characters of the inputs in the order of the default collation: white
\* space, punctuation, then the letters.  No input holds a digit, so that the
\* option {numeric: true} has nothing to compare by value.
CollationOrder == <<" ", ",", "a", "b", "c", "n", "o", "r", "s", "t", "u">>
Weight(c) == CHOOSE w \in 1..Len(CollationOrder) : CollationOrder[w] = c

\* aString.localeCompare(bString, undefined, {numeric: true}): negative, 0, positive
RECURSIVE LocaleCompare(_, _)
LocaleCompare(aString, bString) ==
    IF aString = <<>> /\ bString = <<>> THEN 0
    ELSE IF aString = <<>> THEN -1
    ELSE IF bString = <<>> THEN 1
    ELSE IF Weight(Head(aString)) < Weight(Head(bString)) THEN -1
    ELSE IF Weight(Head(aString)) > Weight(Head(bString)) THEN 1
    ELSE LocaleCompare(Tail(aString), Tail(bString))

NoColumn == "null"

\* `value === undefined || value === null || value === ''` of item[column]:
\* a number is none of them
IsNil(item, column) ==
    CASE column = "name" -> item.name = <<>>
      [] column = "tag" -> item.tag = Undefined \/ item.tag = <<>>
      [] OTHER -> FALSE

\* the comparator with nil placed last in ascending order
CompareItems_NilLast(a, b, column, direction) ==
    LET dir == IF direction = "asc" THEN 1 ELSE -1
    IN  IF IsNil(a, column) /\ IsNil(b, column) THEN 0
        ELSE IF IsNil(a, column) THEN 1 * dir
        ELSE IF IsNil(b, column) THEN (-1) * dir
        ELSE IF column = "quantity" THEN (a.quantity - b.quantity) * dir
        ELSE IF column = "name" THEN LocaleCompare(a.name, b.name) * dir
        ELSE LocaleCompare(a.tag, b.tag) * dir

\* the comparator whose numeric branch returns aValue - bValue whatever the direction
CompareItems_NumbersIgnoreDirection(a, b, column, direction) ==
    LET dir == IF direction = "asc" THEN 1 ELSE -1
    IN  IF IsNil(a, column) /\ IsNil(b, column) THEN 0
        ELSE IF IsNil(a, column) THEN (-1) * dir
        ELSE IF IsNil(b, column) THEN 1 * dir
        ELSE IF column = "quantity" THEN a.quantity - b.quantity
        ELSE IF column = "name" THEN LocaleCompare(a.name, b.name) * dir
        ELSE LocaleCompare(a.tag, b.tag) * dir

\* the comparator of sortedInventory
CompareItems(a, b, column, direction) ==
    LET dir == IF direction = "asc" THEN 1 ELSE -1
    IN  IF IsNil(a, column) /\ IsNil(b, column) THEN 0
        ELSE IF IsNil(a, column) THEN (-1) * dir
        ELSE IF IsNil(b, column) THEN 1 * dir
        ELSE IF column = "quantity" THEN (a.quantity - b.quantity) * dir
        ELSE IF column = "name" THEN LocaleCompare(a.name, b.name) * dir
        ELSE LocaleCompare(a.tag, b.tag) * dir

\* one step of a stable sort: x goes behind every item that does not sort after it
RECURSIVE InsertSorted(_, _, _, _)
InsertSorted(sorted, x, column, direction) ==
    IF sorted = <<>> THEN <<x>>
    ELSE LET last == sorted[Len(sorted)]
         IN  IF CompareItems(last, x, column, direction) <= 0
             THEN Append(sorted, x)
             ELSE Append(InsertSorted(SubSeq(sorted, 1, Len(sorted) - 1), x,
                                      column, direction), last)

\* [...inventory].sort(comparator): Array.prototype.sort is stable
RECURSIVE SortItems(_, _, _)
SortItems(inv, column, direction) ==
    IF inv = <<>> THEN <<>>
    ELSE InsertSorted(SortItems(SubSeq(inv, 1, Len(inv) - 1), column, direction),
                      inv[Len(inv)], column, direction)

\* the useMemo of sortedInventory
SortedInventory(inv, column, direction) ==
    IF column = NoColumn THEN inv ELSE SortItems(inv, column, direction)

sortedInventory == SortedInventory(inventory, sortColumn, sortDirection)

\* ----------------------------------------------------------------- Summary
\* item.tag.split(',').map(tag => tag.trim()).filter(tag => tag !== ''), as a set
RECURSIVE SplitTags(_, _)
SplitTags(rest, piece) ==
    IF rest = <<>> THEN (IF Trim(piece) = <<>> THEN {} ELSE {Trim(piece)})
    ELSE IF Head(rest) = ","
         THEN (IF Trim(piece) = <<>> THEN {} ELSE {Trim(piece)})
                  \cup SplitTags(Tail(rest), <<>>)
         ELSE SplitTags(Tail(rest), Append(piece, Head(rest)))

\* the labels an item adds to its bucket
TagsOf(item) ==
    IF item.tag # Undefined /\ item.tag # <<>> /\ Trim(item.tag) # <<>>
    THEN SplitTags(item.tag, <<>>)
    ELSE {}

\* The accumulator of the reduce is the object literal {}: acc[key] of a key
\* that Object.prototype defines (constructor, toString, valueOf, ...) is the
\* inherited member, which is truthy, whether or not acc has a bucket of its own.
ObjectPrototypeKeys == {<<"c", "o", "n", "s", "t", "r", "u", "c", "t", "o", "r">>}

\* One call of the reducer.  acc is [buckets, threw]: buckets maps the own
\* keys to {quantity, tags}; threw says that a call raised a TypeError.
SummaryStep(acc, item) ==
    LET key == item.name
    IN  IF acc.threw THEN acc
        ELSE IF key \in DOMAIN acc.buckets
        THEN [acc EXCEPT !.buckets[key] =
                 [quantity |-> @.quantity + item.quantity,
                  tags |-> @.tags \cup TagsOf(item)]]
        ELSE IF key \in ObjectPrototypeKeys
        \* `!acc[key]` is false: no bucket is made; `acc[key].quantity +=` writes
        \* to the inherited member; `acc[key].tags.add` is a call on undefined
        THEN [acc EXCEPT !.threw = TagsOf(item) # {}]
        ELSE [acc EXCEPT !.buckets =
                 [k \in DOMAIN acc.buckets \cup {key} |->
                     IF k = key
                     THEN [quantity |-> 0 + item.quantity, tags |-> TagsOf(item)]
                     ELSE acc.buckets[k]]]

\* inventory.reduce(reducer, {})
RECURSIVE ItemSummary(_)
ItemSummary(inv) ==
    IF inv = <<>> THEN [buckets |-> [k \in {} |-> 0], threw |-> FALSE]
    ELSE SummaryStep(ItemSummary(SubSeq(inv, 1, Len(inv) - 1)), inv[Len(inv)])

itemSummary == ItemSummary(inventory)

\* ------------------------------------------------------------------ inputs
\* what the user types into the name and tag fields (add form, edit dialog)
NameInputs == {<<" ">>, <<" ", "a">>}
TagInputs == {<<" ">>, <<"r", " ">>}
\* the quantity fields hold Math.max(0, Number(value))
QuantityInputs == 0..MaxQty
\* the row buttons pass +1 and -1; the handler takes any change
ChangeInputs == {0 - MaxQty, -1, 1}
SortColumns == {"name", "quantity", "tag"}

\* ----------------------------------------------------------- specification
Next ==
    \/ \E n \in NameInputs, q \in QuantityInputs, t \in TagInputs : handleAddItem(n, q, t)
          /\ UNCHANGED background
    \/ \E id \in Ids : handleEditItem(id)
          /\ UNCHANGED background
    \/ \E n \in NameInputs, q \in QuantityInputs, t \in TagInputs : handleUpdateItem(n, q, t)
          /\ UNCHANGED background
    \/ cancelEdit
          /\ UNCHANGED background
    \/ \E id \in Ids : handleDeleteItem(id)
          /\ UNCHANGED background
    \/ confirmDeleteItem
          /\ UNCHANGED background
    \/ cancelDelete
          /\ UNCHANGED background
    \/ \E id \in Ids, change \in ChangeInputs : handleQuantityChange(id, change)
          /\ UNCHANGED background
    \/ \E results \in ParseResults : handleImportCSV(results)
          /\ UNCHANGED background
    \/ handleExportCSV
          /\ UNCHANGED background

Spec == Init /\ [][Next]_vars

\* the page used without the edit dialog
NextNoEdit ==
    \/ \E n \in NameInputs, q \in QuantityInputs, t \in TagInputs : handleAddItem(n, q, t)
          /\ UNCHANGED background
    \/ \E id \in Ids : handleDeleteItem(id)
          /\ UNCHANGED background
    \/ confirmDeleteItem
          /\ UNCHANGED background
    \/ cancelDelete
          /\ UNCHANGED background
    \/ \E id \in Ids, change \in ChangeInputs : handleQuantityChange(id, change)
          /\ UNCHANGED background
    \/ \E results \in ParseResults : handleImportCSV(results)
          /\ UNCHANGED background

SpecNoEdit == Init /\ [][NextNoEdit]_vars

\* -------------------------------------------------------------------- view
\* The view of a list as the startup load leaves it: the list is what an
\* earlier session saved, the ledger is empty, no dialog is open.  The lists
\* are those the operations can build: trimmed names and tags, an absent tag
\* stored as undefined, ids all different.
ViewNames == {<<"a">>, <<"c", "o", "n", "s", "t", "r", "u", "c", "t", "o", "r">>}
ViewTags == {Undefined, <<"r">>, <<"s", ",", " ", "r">>}
ViewQuantities == 0..MaxQty
ViewLists ==
    UNION {
        {[i \in 1..n |-> InventoryItem(i, f[i][1], f[i][2], f[i][3])] :
            f \in [1..n -> ViewNames \X ViewQuantities \X ViewTags]}
        : n \in 0..MaxViewItems}

InitView ==
    /\ inventory \in ViewLists
    /\ realTimeChanges = NoChanges
    /\ selectedItem = Null
    /\ isEditDialogOpen = FALSE
    /\ isDeleteConfirmationOpen = FALSE
    /\ sortColumn = "name"
    /\ sortDirection = "asc"
    /\ newItemFields = BlankFields
    /\ store = NoStore
    /\ transactions = <<>>
    /\ timers = <<>>

NextView ==
    \/ \E column \in SortColumns : handleSort(column)
          /\ UNCHANGED background
    \/ handleExportCSV
          /\ UNCHANGED background

SpecView == InitView /\ [][NextView]_vars


\* ---------------------------------------------------------- the Add form
\* onChange of the name field
setNewItemName(value) ==
    /\ NoDialogOpen
    /\ newItemFields' = [newItemFields EXCEPT !.newItemName = value]
    /\ UNCHANGED <<inventory, realTimeChanges, selectedItem, isEditDialogOpen,
                   isDeleteConfirmationOpen, sortColumn, sortDirection>>

\* onChange of the quantity field: Math.max(0, Number(e.target.value))
setNewItemQuantity(value) ==
    /\ NoDialogOpen
    /\ newItemFields' = [newItemFields EXCEPT !.newItemQuantity = Max(0, value)]
    /\ UNCHANGED <<inventory, realTimeChanges, selectedItem, isEditDialogOpen,
                   isDeleteConfirmationOpen, sortColumn, sortDirection>>

\* onChange of the tag field
setNewItemTag(value) ==
    /\ NoDialogOpen
    /\ newItemFields' = [newItemFields EXCEPT !.newItemTag = value]
    /\ UNCHANGED <<inventory, realTimeChanges, selectedItem, isEditDialogOpen,
                   isDeleteConfirmationOpen, sortColumn, sortDirection>>

\* what is typed into the quantity field: a number, which may be negative
TypedQuantities == (0 - 1)..MaxQty

\* The Add form: the fields are typed into and the button (or Enter) calls
\* handleAddItem on what they hold.  In Spec the content of the fields at
\* the time of the call is the input of handleAddItem and the typing is left out.
NextForm ==
    \/ \E value \in NameInputs : setNewItemName(value)
          /\ UNCHANGED background
    \/ \E value \in TypedQuantities : setNewItemQuantity(value)
          /\ UNCHANGED background
    \/ \E value \in TagInputs : setNewItemTag(value)
          /\ UNCHANGED background
    \/ handleAddItem(newItemFields.newItemName, newItemFields.newItemQuantity,
                     newItemFields.newItemTag)
          /\ UNCHANGED background

SpecForm == Init /\ [][NextForm]_vars

\* ------------------------------------------------------------ persistence
\* A transaction on the object store.  saveInventoryToDB and
\* loadInventoryFromDB each open the database and then a transaction; the
\* open requests are served in the order they were made and transactions on
\* one store whose scopes overlap run in the order they were created, so the
\* transactions run oldest first.
SaveOf(inv) == [mode |-> "readwrite", inventory |-> inv]
LoadTransaction == [mode |-> "readonly", inventory |-> <<>>]

\* the puts of saveInventoryToDB without the clear before them
SavedStore_NotCleared(inv) ==
    [id \in DOMAIN store \cup ItemIds(inv) |->
        IF id \in ItemIds(inv)
        THEN inv[CHOOSE i \in IndexSet(inv) : inv[i].id = id]
        ELSE store[id]]

\* `await store.clear(); await Promise.all(inventory.map(item => store.put(item)))`
\* with keyPath 'id': a put replaces the value stored under the id
SavedStore(inv) ==
    [id \in ItemIds(inv) |->
        inv[CHOOSE i \in IndexSet(inv) :
                /\ inv[i].id = id
                /\ \A j \in IndexSet(inv) : inv[j].id = id => j <= i]]

\* store.getAll(): the values in the order of their keys
RECURSIVE StoredItems(_)
StoredItems(st) ==
    IF DOMAIN st = {} THEN <<>>
    ELSE LET first == CHOOSE id \in DOMAIN st : \A other \in DOMAIN st : id <= other
         IN  <<st[first]>> \o StoredItems([id \in DOMAIN st \ {first} |-> st[id]])

\* the saveInventoryToDB calls whose transaction is not done yet
PendingSaves == SelectSeq(transactions, LAMBDA t : t.mode = "readwrite")

\* the save effect, which runs after a render in which setInventory gave the
\* component a new list: saveInventoryToDB(inventory) is called and not awaited
saveEffect(listWasSet) ==
    /\ listWasSet => Len(PendingSaves) < MaxTransactions
    /\ transactions' = IF listWasSet THEN Append(transactions, SaveOf(inventory'))
                       ELSE transactions
    /\ UNCHANGED <<store, timers>>

\* a database that runs the newest transaction first
saveInventoryToDB_NewestFirst ==
    /\ transactions # <<>>
    /\ transactions[Len(transactions)].mode = "readwrite"
    /\ store' = SavedStore(transactions[Len(transactions)].inventory)
    /\ transactions' = SubSeq(transactions, 1, Len(transactions) - 1)
    /\ UNCHANGED <<timers, inventory, realTimeChanges, selectedItem, isEditDialogOpen,
                   isDeleteConfirmationOpen, sortColumn, sortDirection, newItemFields>>

\* the transaction of a saveInventoryToDB call commits
saveInventoryToDB ==
    /\ transactions # <<>>
    /\ Head(transactions).mode = "readwrite"
    /\ store' = SavedStore(Head(transactions).inventory)
    /\ transactions' = Tail(transactions)
    /\ UNCHANGED <<timers, inventory, realTimeChanges, selectedItem, isEditDialogOpen,
                   isDeleteConfirmationOpen, sortColumn, sortDirection, newItemFields>>

\* a failed save that puts the list back to what the store holds
saveInventoryToDBFails_RollsBack ==
    /\ transactions # <<>>
    /\ Head(transactions).mode = "readwrite"
    /\ transactions' = Tail(transactions)
    /\ inventory' = StoredItems(store)
    /\ realTimeChanges' = NoChanges
    /\ UNCHANGED <<store, timers, selectedItem, isEditDialogOpen,
                   isDeleteConfirmationOpen, sortColumn, sortDirection, newItemFields>>

\* a saveInventoryToDB call fails (the database does not open, or the
\* transaction aborts and is rolled back): the error is caught and logged
saveInventoryToDBFails ==
    /\ transactions # <<>>
    /\ Head(transactions).mode = "readwrite"
    /\ transactions' = Tail(transactions)
    /\ UNCHANGED <<store, timers, inventory, realTimeChanges, selectedItem,
                   isEditDialogOpen,
                   isDeleteConfirmationOpen, sortColumn, sortDirection, newItemFields>>

\* a load that sets the list and leaves the ledger as it is
loadInitialInventory_KeepsLedger(data) ==
    /\ transactions # <<>>
    /\ Head(transactions).mode = "readonly"
    /\ inventory' = data
    /\ transactions' = Append(Tail(transactions), SaveOf(inventory'))
    /\ UNCHANGED <<realTimeChanges, store, timers, selectedItem, isEditDialogOpen,
                   isDeleteConfirmationOpen, sortColumn, sortDirection, newItemFields>>

\* loadInitialInventory after loadInventoryFromDB returned data:
\* setInventory(data), setRealTimeChanges({}); the new list starts a save
loadInitialInventory(data) ==
    /\ transactions # <<>>
    /\ Head(transactions).mode = "readonly"
    /\ inventory' = data
    /\ realTimeChanges' = NoChanges
    /\ transactions' = Append(Tail(transactions), SaveOf(inventory'))
    /\ UNCHANGED <<store, timers, selectedItem, isEditDialogOpen, isDeleteConfirmationOpen,
                   sortColumn, sortDirection, newItemFields>>

\* the stores a page is mounted on
InitialStores ==
    {[id \in 1..n |-> InventoryItem(id, <<"a">>, 1, IF id = 1 THEN Undefined ELSE <<"r">>)] :
        n \in 0..MaxStored}

\* The mount: the load effect calls loadInventoryFromDB, then the save effect
\* calls saveInventoryToDB([]) with the initial list.
InitDB ==
    /\ inventory = <<>>
    /\ realTimeChanges = NoChanges
    /\ selectedItem = Null
    /\ isEditDialogOpen = FALSE
    /\ isDeleteConfirmationOpen = FALSE
    /\ sortColumn = "name"
    /\ sortDirection = "asc"
    /\ newItemFields = BlankFields
    /\ store \in InitialStores
    /\ transactions = <<LoadTransaction, SaveOf(<<>>)>>
    /\ timers = <<>>

\* the inputs of the handlers while the database is followed
StoredNames == {<<" ", "a">>}
StoredQuantities == {1}
StoredTags == {<<"r", " ">>}
StoredChanges == {-1, 1}
StoredFiles ==
    {[data |-> <<Row(<<"a">>, <<"1">>, tag)>>, errors |-> FALSE] : tag \in TagInputs}

NextDB ==
    \/ \E n \in StoredNames, q \in StoredQuantities, t \in StoredTags :
          handleAddItem(n, q, t) /\ saveEffect(~AddRejected(n, q))
    \/ \E id \in Ids : handleEditItem(id) /\ saveEffect(FALSE)
    \/ \E n \in StoredNames, q \in StoredQuantities, t \in StoredTags :
          handleUpdateItem(n, q, t)
              /\ saveEffect(selectedItem # Null
                                /\ FindById(inventory, selectedItem) # NotFound)
    \/ cancelEdit /\ saveEffect(FALSE)
    \/ \E id \in Ids : handleDeleteItem(id) /\ saveEffect(FALSE)
    \/ confirmDeleteItem /\ saveEffect(selectedItem # Null)
    \/ cancelDelete /\ saveEffect(FALSE)
    \/ \E id \in Ids, change \in StoredChanges :
          handleQuantityChange(id, change)
              /\ saveEffect(FindById(inventory, id) # NotFound)
    \/ \E results \in StoredFiles :
          handleImportCSV(results) /\ saveEffect(~results.errors)
    \/ saveInventoryToDB
    \/ saveInventoryToDBFails
    \/ loadInitialInventory(StoredItems(store))
    \/ loadInitialInventory(<<>>)

SpecDB == InitDB /\ [][NextDB]_vars

\* -------------------------------------------------------------- the mount
\* The page is mounted on a store that holds items and the user does nothing:
\* only the load and the saves that the mount and the load start go on.
MountStores ==
    UNION {[ids -> {InventoryItem(0, <<"a">>, q, Undefined) : q \in 1..MaxQty}] :
              ids \in (SUBSET Ids) \ {{}}}

\* getAll returns the values the puts stored: the id of a value is its key
KeyedStore(st) == [id \in DOMAIN st |-> [st[id] EXCEPT !.id = id]]

InitMount ==
    /\ inventory = <<>>
    /\ realTimeChanges = NoChanges
    /\ selectedItem = Null
    /\ isEditDialogOpen = FALSE
    /\ isDeleteConfirmationOpen = FALSE
    /\ sortColumn = "name"
    /\ sortDirection = "asc"
    /\ newItemFields = BlankFields
    /\ store \in {KeyedStore(st) : st \in MountStores}
    /\ transactions = <<LoadTransaction, SaveOf(<<>>)>>
    /\ timers = <<>>

NextMount ==
    \/ loadInitialInventory(StoredItems(store))
    \/ loadInitialInventory(<<>>)
    \/ saveInventoryToDB
    \/ saveInventoryToDBFails

SpecMount == InitMount /\ [][NextMount]_vars

\* ------------------------------------------------------ earlier revision
\* The revision of lines 829-1346 of page.tsx.  Its state has the names of
\* the current one; its handlers differ and are the Earlier_ ones.  An id is
\* Date.now().toString(): the millisecond of the call.  Two events fall in
\* different milliseconds, so the id drawn in an event is one that no earlier
\* event drew; calls within one event may fall in the same millisecond.

\* what the bounds allow a ledger to be
ChangesWithinBounds(changes) ==
    \A id \in DOMAIN changes :
        changes[id] <= MaxChange /\ changes[id] >= 0 - MaxChange

\* newItemName.trim() === '' || newItemQuantity === 0
Earlier_AddRejected(newItemName, newItemQuantity) ==
    Trim(newItemName) = <<>> \/ newItemQuantity = 0

\* the findIndex of the earlier handleAddItem
Earlier_FindIndex(inv, newItemName, newItemTag) ==
    LET hits == {i \in IndexSet(inv) :
                    /\ inv[i].name = Trim(newItemName)
                    /\ IF newItemTag = Undefined \/ newItemTag = <<>>
                       THEN inv[i].tag = Undefined \/ inv[i].tag = <<>>
                       ELSE inv[i].tag = Trim(newItemTag)}
    IN  IF hits = {} THEN NotFound ELSE CHOOSE i \in hits : \A j \in hits : i <= j

Earlier_handleAddItem(newItemName, newItemQuantity, newItemTag) ==
    /\ NoDialogOpen
    /\ IF Earlier_AddRejected(newItemName, newItemQuantity)
       THEN UNCHANGED <<inventory, realTimeChanges, newItemFields>>
       ELSE LET existingItemIndex == Earlier_FindIndex(inventory, newItemName, newItemTag)
                newItem == InventoryItem(
                               FreshId(UsedIds(inventory, realTimeChanges, selectedItem)),
                               Trim(newItemName), newItemQuantity,
                               IF newItemTag = Undefined THEN Undefined
                               ELSE Trim(newItemTag))
            IN  /\ IF existingItemIndex # NotFound
                   THEN /\ inventory' = [inventory EXCEPT
                               ![existingItemIndex].quantity = @ + newItemQuantity]
                        /\ realTimeChanges' =
                               WithChange(realTimeChanges, inventory[existingItemIndex].id,
                                   ChangeOf(realTimeChanges, inventory[existingItemIndex].id)
                                       + newItemQuantity)
                   ELSE /\ inventory' = Append(inventory, newItem)
                        /\ realTimeChanges' =
                               WithChange(realTimeChanges, newItem.id,
                                   ChangeOf(realTimeChanges, newItem.id) + newItemQuantity)
                /\ WithinBounds(inventory')
                /\ ChangesWithinBounds(realTimeChanges')
                /\ newItemFields' = BlankFields
    /\ UNCHANGED <<selectedItem, isEditDialogOpen, isDeleteConfirmationOpen,
                   sortColumn, sortDirection>>

Earlier_handleDeleteItem(id) ==
    /\ NoDialogOpen
    /\ id \in ItemIds(inventory)
    /\ selectedItem' = id
    /\ isDeleteConfirmationOpen' = TRUE
    /\ UNCHANGED <<inventory, realTimeChanges, isEditDialogOpen,
                   sortColumn, sortDirection, newItemFields>>

\* prevInventory.filter(item => item.id !== selectedItem.id)
Earlier_confirmDeleteItem ==
    /\ isDeleteConfirmationOpen
    /\ IF selectedItem = Null
       THEN UNCHANGED <<inventory, selectedItem, isDeleteConfirmationOpen>>
       ELSE /\ inventory' = SelectSeq(inventory, LAMBDA item : item.id # selectedItem)
            /\ isDeleteConfirmationOpen' = FALSE
            /\ selectedItem' = Null
    /\ UNCHANGED <<realTimeChanges, isEditDialogOpen, sortColumn, sortDirection,
                   newItemFields>>

\* the ledger gets the change asked for, the quantity the clamped one
Earlier_handleQuantityChange(itemId, change) ==
    /\ NoDialogOpen
    /\ IF FindById(inventory, itemId) = NotFound
       THEN UNCHANGED <<inventory, realTimeChanges>>
       ELSE LET itemToUpdate == inventory[FindById(inventory, itemId)]
                updatedQuantity == Max(0, itemToUpdate.quantity + change)
            IN  /\ realTimeChanges' =
                       WithChange(realTimeChanges, itemId,
                                  ChangeOf(realTimeChanges, itemId) + change)
                /\ inventory' = [i \in IndexSet(inventory) |->
                                    IF inventory[i].id = itemId
                                    THEN [inventory[i] EXCEPT !.quantity = updatedQuantity]
                                    ELSE inventory[i]]
                /\ WithinBounds(inventory')
                /\ ChangesWithinBounds(realTimeChanges')
    /\ UNCHANGED <<selectedItem, isEditDialogOpen, isDeleteConfirmationOpen,
                   sortColumn, sortDirection, newItemFields>>

\* `row.name || 'Unknown'`
Unknown == <<"U", "n", "k", "n", "o", "w", "n">>

\* results.data.map(row => ({id: Date.now().toString(), ...})): ticks[k] tells
\* whether the clock moved to the next millisecond before the k-th row
RECURSIVE Earlier_MappedRows(_, _, _, _)
Earlier_MappedRows(data, ticks, used, last) ==
    IF data = <<>> THEN <<>>
    ELSE LET row == Head(data)
             id == IF last = Null \/ Head(ticks) THEN FreshId(used) ELSE last
         IN  <<InventoryItem(id,
                   IF row.name = Undefined \/ row.name = <<>> THEN Unknown ELSE row.name,
                   ParsedQuantity(row.quantity),
                   IF row.tag = Undefined THEN <<>> ELSE row.tag)>>
             \o Earlier_MappedRows(Tail(data), Tail(ticks), used \cup {id}, id)

\* the completion callback: the mapped rows are appended to the list
Earlier_handleImportCSV(results, ticks) ==
    /\ inventory' = inventory
            \o Earlier_MappedRows(results.data, ticks,
                    UsedIds(inventory, realTimeChanges, selectedItem), Null)
    /\ WithinBounds(inventory')
    /\ UNCHANGED <<realTimeChanges, selectedItem, isEditDialogOpen,
                   isDeleteConfirmationOpen, sortColumn, sortDirection, newItemFields>>

\* the rows of the files imported into the earlier revision: a row a/1 with
\* an empty tag, and a row without name and tag whose quantity is no number
EarlierRows == {Row(<<"a">>, <<"1">>, <<>>), Row(<<>>, <<"x">>, Undefined)}
EarlierFiles ==
    {[data |-> data, errors |-> FALSE] :
        data \in UNION {[1..n -> EarlierRows] : n \in 0..MaxRows}}

NextEarlier ==
    \/ \E n \in NameInputs, q \in QuantityInputs, t \in TagInputs :
          Earlier_handleAddItem(n, q, t) /\ UNCHANGED background
    \/ \E id \in Ids : Earlier_handleDeleteItem(id) /\ UNCHANGED background
    \/ Earlier_confirmDeleteItem /\ UNCHANGED background
    \/ cancelDelete /\ UNCHANGED background
    \/ \E id \in Ids, change \in ChangeInputs :
          Earlier_handleQuantityChange(id, change) /\ UNCHANGED background
    \/ \E results \in EarlierFiles, ticks \in [1..MaxRows -> BOOLEAN] :
          Earlier_handleImportCSV(results, ticks) /\ UNCHANGED background

SpecEarlier == Init /\ [][NextEarlier]_vars

\* ---------------------------------------------- the revision with auto-clear
\* The revision of part_000.  An item has an array of tags; the ledger is
\* written by handleQuantityChange and by the timers it starts, and by
\* nothing else.

\* initialData, which the mount sets the list to (the three names are
\* written here as "banana", "apple", "milk", the tags as "fresh", "tasty, red"
\* and "savory")
AutoClear_initialData ==
    << [id |-> 1, name |-> "banana", quantity |-> 50, tags |-> <<"fresh">>],
       [id |-> 2, name |-> "apple", quantity |-> 75, tags |-> <<"tasty, red">>],
       [id |-> 3, name |-> "milk", quantity |-> 30, tags |-> <<"savory">>] >>

\* what the bounds allow the quantities to be
AutoClear_WithinBounds(inv) ==
    \A i \in IndexSet(inv) :
        /\ inv[i].quantity <= AutoClear_initialData[i].quantity + MaxDrift
        /\ inv[i].quantity >= AutoClear_initialData[i].quantity - MaxDrift

\* the list handleQuantityChange sets: the updater of setInventory
AutoClear_ChangedInventory(prevInventory, itemId, change) ==
    IF FindById(prevInventory, itemId) = NotFound THEN prevInventory
    ELSE LET itemToUpdate == prevInventory[FindById(prevInventory, itemId)]
             updatedQuantity == itemToUpdate.quantity + change
         IN  IF updatedQuantity < 0 THEN prevInventory
             ELSE [i \in IndexSet(prevInventory) |->
                      IF prevInventory[i].id = itemId
                      THEN [prevInventory[i] EXCEPT !.quantity = updatedQuantity]
                      ELSE prevInventory[i]]

\* the + and - buttons of a row: the list is set, the change is added to the
\* ledger entry, and a timer is started that clears the entry 2000 ms later
AutoClear_handleQuantityChange(itemId, change) ==
    /\ NoDialogOpen
    /\ Len(timers) < MaxTimers
    /\ inventory' = AutoClear_ChangedInventory(inventory, itemId, change)
    /\ AutoClear_WithinBounds(inventory')
    /\ realTimeChanges' = WithChange(realTimeChanges, itemId,
                                     ChangeOf(realTimeChanges, itemId) + change)
    /\ timers' = Append(timers, itemId)
    /\ UNCHANGED <<selectedItem, isEditDialogOpen, isDeleteConfirmationOpen,
                   sortColumn, sortDirection, newItemFields, store, transactions>>

\* the callback of the oldest timer (the delays are equal, so the timers fire
\* in the order they were started): `const {[itemId]: removedItem, ...rest}`
AutoClear_timeout ==
    /\ timers # <<>>
    /\ realTimeChanges' = WithoutChange(realTimeChanges, Head(timers))
    /\ timers' = Tail(timers)
    /\ UNCHANGED <<inventory, selectedItem, isEditDialogOpen, isDeleteConfirmationOpen,
                   sortColumn, sortDirection, newItemFields, store, transactions>>

\* the page after the mount effect has set the list
InitAutoClear ==
    /\ inventory = AutoClear_initialData
    /\ realTimeChanges = NoChanges
    /\ selectedItem = Null
    /\ isEditDialogOpen = FALSE
    /\ isDeleteConfirmationOpen = FALSE
    /\ sortColumn = "name"
    /\ sortDirection = "asc"
    /\ newItemFields = BlankFields
    /\ store = NoStore
    /\ transactions = <<>>
    /\ timers = <<>>

\* the changes the buttons ask for
ButtonChanges == {-1, 1}

NextAutoClear ==
    \/ \E id \in Ids, change \in ButtonChanges : AutoClear_handleQuantityChange(id, change)
    \/ AutoClear_timeout

SpecAutoClear == InitAutoClear /\ [][NextAutoClear]_vars

\* ================================================================== claims
\* the positions of the items with the identity (name, tag-or-empty)
ItemsWithIdentity(inv, name, tag) ==
    {i \in IndexSet(inv) : inv[i].name = name /\ OrEmpty(inv[i].tag) = tag}

\* C1: from every reachable list that holds no item with the identity
\* (trim(name), normalized tag), and for every quantity > 0, Add(name, qty, tag)
\* followed by Add(name, qty, tag) leaves exactly one item with that identity,
\* its quantity is 2 * qty, and the list is one item longer (not two).
C1_AddTwiceMerges ==
    \A n \in NameInputs, q \in QuantityInputs, t \in TagInputs :
        (/\ ~AddRejected(n, q)
         /\ q > 0
         /\ ItemsWithIdentity(inventory, Trim(n), TrimOrEmpty(t)) = {})
        => LET id1 == FreshId(UsedIds(inventory, realTimeChanges, selectedItem))
               inv1 == AddedInventory(inventory, id1, n, q, t)
               chg1 == AddedChanges(inventory, realTimeChanges, id1, n, q, t)
               id2 == FreshId(UsedIds(inv1, chg1, selectedItem))
               inv2 == AddedInventory(inv1, id2, n, q, t)
               same == ItemsWithIdentity(inv2, Trim(n), TrimOrEmpty(t))
           IN  /\ Cardinality(same) = 1
               /\ \A i \in same : inv2[i].quantity = 2 * q
               /\ Len(inv2) = Len(inventory) + 1

\* C1 witness: a list that holds a/r only, on which Add(" a", 1, " ") appends
\* the item a without tag and the same Add again raises it to 2: two items
C1_Witness ==
    /\ Len(inventory) = 1
    /\ inventory[1].tag = <<"r">>
    /\ NoDialogOpen
    /\ LET id1 == FreshId(UsedIds(inventory, realTimeChanges, selectedItem))
           inv1 == AddedInventory(inventory, id1, <<" ", "a">>, 1, <<" ">>)
           chg1 == AddedChanges(inventory, realTimeChanges, id1, <<" ", "a">>, 1, <<" ">>)
           id2 == FreshId(UsedIds(inv1, chg1, selectedItem))
           inv2 == AddedInventory(inv1, id2, <<" ", "a">>, 1, <<" ">>)
       IN  /\ Len(inv1) = 2
           /\ Len(inv2) = 2
           /\ inv2[2].name = <<"a">>
           /\ inv2[2].tag = Undefined
           /\ inv2[2].quantity = 2

\* C2: for every item of a reachable list, with quantity q, and every signed
\* change d, AdjustQuantity(id, d) sets the quantity to max(0, q + d) and adds
\* max(0, q + d) - q, the change applied, to the ledger entry of id.
C2_AdjustClampsAndLedgersApplied ==
    \A i \in IndexSet(inventory), d \in ChangeInputs :
        LET id == inventory[i].id
            q == inventory[i].quantity
            clamped == IF q + d < 0 THEN 0 ELSE q + d
            inv2 == ChangedInventory(inventory, id, d)
            chg2 == ChangedChanges(inventory, realTimeChanges, id, d)
        IN  /\ inv2[i].quantity = clamped
            /\ ChangeOf(chg2, id) = ChangeOf(realTimeChanges, id) + (clamped - q)

\* C2 witness: an item of quantity 1 with an untouched ledger entry, on which
\* the change -MaxQty gives quantity 0 and the ledger -1, not -MaxQty
C2_Witness ==
    /\ Len(inventory) = 1
    /\ inventory[1].quantity = 1
    /\ ChangeOf(realTimeChanges, inventory[1].id) = 0
    /\ NoDialogOpen
    /\ ChangedInventory(inventory, inventory[1].id, 0 - MaxQty)[1].quantity = 0
    /\ ChangeOf(ChangedChanges(inventory, realTimeChanges, inventory[1].id, 0 - MaxQty),
                inventory[1].id) = -1
    /\ 0 - MaxQty < -1

\* C3: a confirmed Delete(id) removes the item with that id from the list and
\* the entry of id from the ledger; a second Delete(id) on the resulting state
\* changes neither the list nor the ledger.
C3_DeleteRemovesAndIsIdempotent ==
    [][(confirmDeleteItem /\ selectedItem # Null)
        => /\ selectedItem \in ItemIds(inventory)
           /\ selectedItem \notin ItemIds(inventory')
           /\ selectedItem \notin DOMAIN realTimeChanges'
           /\ DeletedInventory(inventory', selectedItem) = inventory'
           /\ DeletedChanges(realTimeChanges', selectedItem) = realTimeChanges'
      ]_vars

\* C3 witness: the first item, whose id is 1, was deleted from a list of two:
\* its id is in neither the list nor the ledger, the second item is still there
C3_Witness ==
    /\ Len(inventory) = 1
    /\ inventory[1].id = 2
    /\ DOMAIN realTimeChanges = {2}
    /\ selectedItem = Null


\* C4: in every state reachable from the empty list by Add, Edit,
\* AdjustQuantity, Delete and ImportRows (rows with any integer quantity),
\* every item of the list has quantity >= 0.
C4_QuantitiesNeverNegative ==
    \A i \in IndexSet(inventory) : inventory[i].quantity >= 0

\* the identity of an accepted row
RowName(row) == Trim(row.name)
RowTag(row) == TrimOrEmpty(row.tag)

\* the sum of the quantities of the rows with the identity (name, tag)
RECURSIVE SumOfRows(_, _, _)
SumOfRows(rows, name, tag) ==
    IF rows = <<>> THEN 0
    ELSE (IF RowName(Head(rows)) = name /\ RowTag(Head(rows)) = tag
          THEN ParsedQuantity(Head(rows).quantity) ELSE 0)
             + SumOfRows(Tail(rows), name, tag)

\* C5: ImportRows checks each row against the batch-in-progress list: for every
\* reachable list and every file, an identity of accepted rows that matches no
\* item of the list before the import is, after it, the identity of exactly one
\* item, whose quantity is the sum of the quantities of those rows.
C5_ImportMergesWithinBatch ==
    \A data \in ParsedFiles :
        LET rows == AcceptedRows(data)
            after == Imported(inventory, realTimeChanges,
                              UsedIds(inventory, realTimeChanges, selectedItem),
                              data).inventory
        IN  \A k \in 1..Len(rows) :
                ItemsWithIdentity(inventory, RowName(rows[k]), RowTag(rows[k])) = {}
                => LET same == ItemsWithIdentity(after, RowName(rows[k]), RowTag(rows[k]))
                   IN  /\ Cardinality(same) = 1
                       /\ \A i \in same :
                             after[i].quantity
                                 = SumOfRows(rows, RowName(rows[k]), RowTag(rows[k]))

\* C5 witness: a list that holds a/r only, into which a file of two rows a/1
\* without tag is imported: one item a without tag is appended, of quantity 2
C5_Witness ==
    /\ Len(inventory) = 1
    /\ inventory[1].tag = <<"r">>
    /\ \E data \in ParsedFiles :
          LET rows == AcceptedRows(data)
              after == Imported(inventory, realTimeChanges,
                                UsedIds(inventory, realTimeChanges, selectedItem),
                                data).inventory
          IN  /\ Len(rows) = 2
              /\ \A k \in 1..2 : RowName(rows[k]) = <<"a">> /\ RowTag(rows[k]) = <<>>
              /\ SumOfRows(rows, <<"a">>, <<>>) = 2
              /\ Len(after) = 2
              /\ after[2].tag = Undefined
              /\ after[2].quantity = 2

\* C6: in every state reachable from the empty list by Add, Edit,
\* AdjustQuantity, Delete and ImportRows, every item's name is non-empty and
\* has no leading or trailing white space.
C6_NamesNonEmptyAndTrimmed ==
    \A i \in IndexSet(inventory) :
        /\ inventory[i].name # <<>>
        /\ ~IsWhiteSpace(inventory[i].name[1])
        /\ ~IsWhiteSpace(inventory[i].name[Len(inventory[i].name)])

\* the (name, quantity, tag-or-empty-string) triples of a list
ItemTriples(inv) ==
    {<<inv[i].name, inv[i].quantity, OrEmpty(inv[i].tag)>> : i \in IndexSet(inv)}

\* no two items of the list have the same (name, tag) pair
NoDuplicateIdentity(inv) ==
    \A i, j \in IndexSet(inv) :
        (inv[i].name = inv[j].name /\ OrEmpty(inv[i].tag) = OrEmpty(inv[j].tag)) => i = j

\* the list that importing the exported file into the empty list gives
ReImported(inv) == Imported(<<>>, NoChanges, {}, ExportedRows(inv)).inventory

\* C7: for every reachable list with no duplicate (name, tag) pairs, exporting
\* it, importing the rows into an empty list and exporting again gives the
\* (name, quantity, tag) triples of the list.
C7_ExportImportRoundTrip ==
    (NoDuplicateIdentity(inventory) /\ ~ExportRefused(inventory))
        => /\ ItemTriples(ReImported(inventory)) = ItemTriples(inventory)
           /\ {ExportedRows(ReImported(inventory))[i] : i \in IndexSet(ReImported(inventory))}
                = {ExportedRows(inventory)[i] : i \in IndexSet(inventory)}

\* the comma-separated pieces of a tag, trimmed: the segments between two
\* commas (or an end of the tag) that hold no comma
Pieces(tag) ==
    {Trim(SubSeq(tag, i, j)) : <<i, j>> \in
        {p \in (1..Len(tag) + 1) \X (0..Len(tag)) :
            /\ p[1] <= p[2] + 1
            /\ \A k \in p[1]..p[2] : tag[k] # ","
            /\ (p[1] = 1 \/ tag[p[1] - 1] = ",")
            /\ (p[2] = Len(tag) \/ tag[p[2] + 1] = ",")}}

\* the labels of an item: the non-empty pieces of its tag
Labels(item) == IF item.tag = Undefined THEN {} ELSE Pieces(item.tag) \ {<<>>}

RECURSIVE SumOfItems(_, _)
SumOfItems(inv, name) ==
    IF inv = <<>> THEN 0
    ELSE (IF Head(inv).name = name THEN Head(inv).quantity ELSE 0)
             + SumOfItems(Tail(inv), name)

\* C8: for every list the summary has exactly one bucket per distinct item
\* name; the bucket's quantity is the sum of the quantities of the items with
\* that name, and its tag set is the set of the non-empty trimmed
\* comma-separated pieces of their tags.
C8_SummaryPerName ==
    /\ ~itemSummary.threw
    /\ DOMAIN itemSummary.buckets = {inventory[i].name : i \in IndexSet(inventory)}
    /\ \A name \in DOMAIN itemSummary.buckets :
          /\ itemSummary.buckets[name].quantity = SumOfItems(inventory, name)
          /\ itemSummary.buckets[name].tags
                = UNION {Labels(inventory[i]) :
                            i \in {k \in IndexSet(inventory) : inventory[k].name = name}}

HasTag(item) == item.tag # Undefined /\ item.tag # <<>>

\* in the sequence, every item with a tag stands before every item without one
TaggedFirst(sorted) ==
    \A i, j \in 1..Len(sorted) : (HasTag(sorted[i]) /\ ~HasTag(sorted[j])) => i < j

\* in the sequence, every item without a tag stands before every item with one
UntaggedFirst(sorted) ==
    \A i, j \in 1..Len(sorted) : (~HasTag(sorted[i]) /\ HasTag(sorted[j])) => i < j

\* C9 as stated: sorted by the tag column, the items without a tag come after
\* every item with a tag in ascending order and before them in descending order.
C9_UntaggedLastAscending ==
    sortColumn = "tag"
        => IF sortDirection = "asc" THEN TaggedFirst(sortedInventory)
           ELSE UntaggedFirst(sortedInventory)

\* C9 amended: sorted by the tag column, the items without a tag come before
\* every item with a tag in ascending order and after them in descending order.
C9_UntaggedFirstAscending ==
    sortColumn = "tag"
        => IF sortDirection = "asc" THEN UntaggedFirst(sortedInventory)
           ELSE TaggedFirst(sortedInventory)

\* C9 witness: ascending by tag, a list that holds a tagged item before an
\* untagged one is shown with the untagged item first
C9_Witness ==
    /\ sortColumn = "tag"
    /\ sortDirection = "asc"
    /\ Len(inventory) = 2
    /\ HasTag(inventory[1])
    /\ ~HasTag(inventory[2])
    /\ sortedInventory = <<inventory[2], inventory[1]>>

\* the sequence holds the items of the list, each once
IsPermutation(sorted, inv) ==
    /\ Len(sorted) = Len(inv)
    /\ \E f \in [IndexSet(inv) -> IndexSet(inv)] :
          /\ \A i, j \in IndexSet(inv) : f[i] = f[j] => i = j
          /\ \A i \in IndexSet(inv) : sorted[i] = inv[f[i]]

\* C10: sorted by quantity, the view is a permutation of the list with
\* non-decreasing quantities in ascending order and non-increasing quantities
\* in descending order; a quantity 0 is ordered as the number 0.
C10_QuantitySortIsNumeric ==
    sortColumn = "quantity"
        => /\ IsPermutation(sortedInventory, inventory)
           /\ \A i, j \in 1..Len(sortedInventory) :
                 i < j => IF sortDirection = "asc"
                          THEN sortedInventory[i].quantity <= sortedInventory[j].quantity
                          ELSE sortedInventory[i].quantity >= sortedInventory[j].quantity

\* C10 witness: the quantities 2, 0, 1 are shown as 0, 1, 2 in ascending order
C10_Witness ==
    /\ sortColumn = "quantity"
    /\ sortDirection = "asc"
    /\ Len(inventory) = 3
    /\ <<inventory[1].quantity, inventory[2].quantity, inventory[3].quantity>> = <<2, 0, 1>>
    /\ <<sortedInventory[1].quantity, sortedInventory[2].quantity,
         sortedInventory[3].quantity>> = <<0, 1, 2>>

\* C11: Add with a name that is empty after trimming, or with a quantity <= 0,
\* leaves the item list and the ledger unchanged, and the input fields keep
\* what they held.
C11_RejectedAddChangesNothing ==
    [][(/\ \/ Trim(newItemFields.newItemName) = <<>>
           \/ newItemFields.newItemQuantity <= 0
        /\ handleAddItem(newItemFields.newItemName, newItemFields.newItemQuantity,
                         newItemFields.newItemTag))
        => UNCHANGED <<inventory, realTimeChanges, newItemFields>>
      ]_vars

\* C11 witness: the list holds an item and the fields hold the name " a", the
\* quantity 0 and a tag: an input that handleAddItem is called on and rejects
C11_Witness ==
    /\ Len(inventory) = 1
    /\ newItemFields.newItemName = <<" ", "a">>
    /\ newItemFields.newItemQuantity = 0
    /\ newItemFields.newItemTag = <<"r", " ">>
    /\ NoDialogOpen

\* C12: Edit(id, name, quantity, tag) on an item of the list adds (new quantity
\* - old quantity) to the ledger entry of id on top of its previous value: after
\* one Edit, and after a second Edit of the same item, the entry is its value
\* before the first Edit plus (final quantity - quantity before the first Edit).
C12_EditsAccumulateInLedger ==
    \A i \in IndexSet(inventory), q1 \in QuantityInputs, q2 \in QuantityInputs :
        LET id == inventory[i].id
            q0 == inventory[i].quantity
            n == <<" ", "a">>
            t == <<"r", " ">>
            inv1 == UpdatedInventory(inventory, id, n, q1, t)
            chg1 == UpdatedChanges(inventory, realTimeChanges, id, q1)
            inv2 == UpdatedInventory(inv1, id, n, q2, t)
            chg2 == UpdatedChanges(inv1, chg1, id, q2)
        IN  /\ inv1[i].quantity = q1
            /\ ChangeOf(chg1, id) = ChangeOf(realTimeChanges, id) + (q1 - q0)
            /\ inv2[i].quantity = q2
            /\ ChangeOf(chg2, id) = ChangeOf(realTimeChanges, id) + (q2 - q0)

\* C12 witness: the edit dialog is open on an item of quantity 2 whose ledger
\* entry is 1, and saving the quantity 0 brings the entry to 1 + (0 - 2)
C12_Witness ==
    /\ isEditDialogOpen
    /\ Len(inventory) = 1
    /\ selectedItem = inventory[1].id
    /\ inventory[1].quantity = 2
    /\ ChangeOf(realTimeChanges, selectedItem) = 1
    /\ ChangeOf(UpdatedChanges(inventory, realTimeChanges, selectedItem, 0),
                selectedItem) = -1

\* C13: when the parse step reports an error, the import commits nothing: the
\* item list and the ledger are what they were before the import, even if rows
\* of the file were parsed.
C13_ParseErrorsCommitNothing ==
    [][\A results \in ParseResults :
          (results.errors /\ handleImportCSV(results))
              => UNCHANGED <<inventory, realTimeChanges>>
      ]_vars

\* C13 witness: a list of one item and a parse result with an error whose data
\* hold a row that the import without the error would have committed
C13_Witness ==
    /\ Len(inventory) = 1
    /\ \E results \in ParseResults :
          /\ results.errors
          /\ AcceptedRows(results.data) # <<>>
          /\ Imported(inventory, realTimeChanges,
                      UsedIds(inventory, realTimeChanges, selectedItem),
                      results.data).inventory # inventory

\* C14: an imported row that has a non-empty name but no quantity field, or a
\* quantity that does not parse as a number, is imported as an item with
\* quantity 0, created or merged by identity, and is not skipped.
C14_RowWithoutQuantityImportedAsZero ==
    \A row \in RowInputs :
        (/\ Trim(row.name) # <<>>
         /\ row.quantity = Undefined \/ ~IsNumeric(row.quantity))
        => LET before == ItemsWithIdentity(inventory, RowName(row), RowTag(row))
               after == Imported(inventory, realTimeChanges,
                                 UsedIds(inventory, realTimeChanges, selectedItem),
                                 <<row>>).inventory
               same == ItemsWithIdentity(after, RowName(row), RowTag(row))
           IN  IF before = {}
               THEN /\ Len(after) = Len(inventory) + 1
                    /\ same = {Len(after)}
                    /\ after[Len(after)].quantity = 0
               ELSE after = inventory

\* what C15 says one valid row does to a list and a ledger: the first item with
\* the identity of the row, and its ledger entry, grow by the quantity of the
\* row and no item is added; without such an item one new item with the
\* quantity of the row is appended under an id that was not in use, and a
\* ledger entry of 0 is registered for it.  Every other entry stays.
RowImportedAsStated(inv, changes, used, row, after) ==
    LET same == ItemsWithIdentity(inv, RowName(row), RowTag(row))
        q == ParsedQuantity(row.quantity)
    IN  IF same # {}
        THEN LET i == CHOOSE x \in same : \A y \in same : x <= y
             IN  /\ after.inventory = [inv EXCEPT ![i].quantity = @ + q]
                 /\ \A id \in DOMAIN changes \cup DOMAIN after.realTimeChanges :
                       ChangeOf(after.realTimeChanges, id)
                           = ChangeOf(changes, id) + (IF id = inv[i].id THEN q ELSE 0)
        ELSE /\ Len(after.inventory) = Len(inv) + 1
             /\ SubSeq(after.inventory, 1, Len(inv)) = inv
             /\ LET new == after.inventory[Len(inv) + 1]
                IN  /\ new.id \notin used
                    /\ new.name = RowName(row)
                    /\ new.quantity = q
                    /\ OrEmpty(new.tag) = RowTag(row)
                    /\ new.id \in DOMAIN after.realTimeChanges
                    /\ after.realTimeChanges[new.id] = 0
                    /\ \A id \in DOMAIN changes :
                          ChangeOf(after.realTimeChanges, id) = changes[id]

\* C15: the import handles the valid rows one by one in file order.  For a
\* file of one valid row the list and the ledger after it are as stated for
\* that row; a file of two valid rows gives what the first row alone followed
\* by the second row alone give.
C15_ImportMergesRowByRow ==
    \A data \in ParsedFiles :
        LET rows == AcceptedRows(data)
            used == UsedIds(inventory, realTimeChanges, selectedItem)
            whole == Imported(inventory, realTimeChanges, used, data)
        IN  /\ Len(rows) = 1
                => RowImportedAsStated(inventory, realTimeChanges, used, rows[1], whole)
            /\ Len(rows) = 2
                => LET first == Imported(inventory, realTimeChanges, used, <<rows[1]>>)
                   IN  whole = Imported(first.inventory, first.realTimeChanges,
                                        UsedIds(first.inventory, first.realTimeChanges,
                                                selectedItem),
                                        <<rows[2]>>)

\* C15 witness: a list that holds a/r with a ledger entry of 1 and a file
\* whose two valid rows are a/r with quantity -1 and a without tag and with
\* quantity 1: the first is merged into the item, the second makes an item
C15_Witness ==
    /\ Len(inventory) = 1
    /\ inventory[1].tag = <<"r">>
    /\ ChangeOf(realTimeChanges, inventory[1].id) = 1
    /\ \E data \in ParsedFiles :
          LET rows == AcceptedRows(data)
              whole == Imported(inventory, realTimeChanges,
                                UsedIds(inventory, realTimeChanges, selectedItem), data)
          IN  /\ Len(rows) = 2
              /\ RowTag(rows[1]) = <<"r">>
              /\ RowTag(rows[2]) = <<>>
              /\ Len(whole.inventory) = 2
              /\ whole.inventory[1].quantity = inventory[1].quantity - 1
              /\ ChangeOf(whole.realTimeChanges, inventory[1].id) = 0
              /\ whole.realTimeChanges[whole.inventory[2].id] = 0

\* C16: the import does not modify the list that was current before it, nor
\* its item records: for every reachable list and every file, one evaluation
\* of the updater leaves the records of the previous list as they were, and a
\* second evaluation on the same previous list returns the same merged list.
C16_ImportUpdaterIsPure ==
    \A data \in ParsedFiles :
        LET importedInventory ==
                MappedRows(AcceptedRows(data),
                           UsedIds(inventory, realTimeChanges, selectedItem))
            once == ImportUpdater(inventory, importedInventory)
            twice == ImportUpdater(once.prevInventory, once.importedInventory)
        IN  /\ once.prevInventory = inventory
            /\ twice.mergedInventory = once.mergedInventory

\* a save transaction leaves the queue in this step
SaveEnds ==
    /\ transactions # <<>>
    /\ Head(transactions).mode = "readwrite"
    /\ transactions' = Tail(transactions)

\* C17: a persistence write that fails never changes the in-memory item list
\* or the ledger: a step in which a save ends and the store is left as it was
\* leaves the list, the ledger, the selection, the dialogs and the fields as
\* the mutation produced them.
C17_FailedWriteKeepsMemory ==
    [][(SaveEnds /\ store' = store)
        => UNCHANGED <<inventory, realTimeChanges, selectedItem, isEditDialogOpen,
                       isDeleteConfirmationOpen, newItemFields>>
      ]_vars

\* C17 witness: every write has ended, the list holds an item and the store
\* does not hold the list: the write of this list failed, and the list is kept
C17_Witness ==
    /\ transactions = <<>>
    /\ Len(inventory) = 2
    /\ store # SavedStore(inventory)
    /\ DOMAIN realTimeChanges # {}

\* C18: when the write of the only save in flight commits, the store holds
\* the items of the in-memory list under their ids and nothing else, and a
\* load (getAll) returns these items: an item deleted from the list is gone.
C18_StoreHoldsTheList ==
    [][(saveInventoryToDB /\ Len(transactions) = 1)
        => /\ DOMAIN store' = ItemIds(inventory)
           /\ \A i \in IndexSet(inventory) : store'[inventory[i].id] = inventory[i]
           /\ Len(StoredItems(store')) = Len(inventory)
           /\ {StoredItems(store')[k] : k \in 1..Len(inventory)}
                 = {inventory[i] : i \in IndexSet(inventory)}
      ]_vars

\* C18 witness: the store the page was mounted on held the item 1; the list
\* now holds another item only, every write is done and the store holds
\* that item alone
C18_Witness ==
    /\ transactions = <<>>
    /\ Len(inventory) = 1
    /\ inventory[1].id # 1
    /\ DOMAIN store = {inventory[1].id}
    /\ store[inventory[1].id] = inventory[1]

\* C19: a valid Add that matches an item by identity sets that item's
\* quantity to its quantity + the quantity added and adds the quantity to its
\* ledger entry; a valid Add that matches no item appends one new item with
\* an id that is not in use and registers a ledger entry of exactly 0 for it.
\* Nothing else of the list or the ledger changes.
C19_AddMergesOrCreates ==
    \A n \in NameInputs, q \in QuantityInputs, t \in TagInputs :
        (Trim(n) # <<>> /\ q > 0)
        => LET same == ItemsWithIdentity(inventory, Trim(n), TrimOrEmpty(t))
               used == UsedIds(inventory, realTimeChanges, selectedItem)
               inv1 == AddedInventory(inventory, FreshId(used), n, q, t)
               chg1 == AddedChanges(inventory, realTimeChanges, FreshId(used), n, q, t)
           IN  IF same # {}
               THEN LET i == CHOOSE x \in same : \A y \in same : x <= y
                    IN  /\ inv1 = [inventory EXCEPT ![i].quantity = @ + q]
                        /\ DOMAIN chg1 = DOMAIN realTimeChanges \cup {inventory[i].id}
                        /\ \A id \in DOMAIN chg1 :
                              chg1[id] = ChangeOf(realTimeChanges, id)
                                            + (IF id = inventory[i].id THEN q ELSE 0)
               ELSE Len(inventory) < MaxItems
                    => /\ Len(inv1) = Len(inventory) + 1
                       /\ SubSeq(inv1, 1, Len(inventory)) = inventory
                       /\ LET new == inv1[Len(inv1)]
                          IN  /\ new.id \in Ids \ used
                              /\ new.name = Trim(n)
                              /\ new.quantity = q
                              /\ new.tag = OrUndefined(TrimOrEmpty(t))
                              /\ DOMAIN chg1 = DOMAIN realTimeChanges \cup {new.id}
                              /\ chg1[new.id] = 0
                              /\ \A id \in DOMAIN realTimeChanges :
                                    chg1[id] = realTimeChanges[id]

\* C19 witness: the list holds a/r with a ledger entry of 1; Add(" a", 1, "r ")
\* raises its quantity by 1 and its entry to 2, and Add(" a", 1, " ") appends
\* the item a without tag with an entry of 0
C19_Witness ==
    /\ NoDialogOpen
    /\ Len(inventory) = 1
    /\ inventory[1].tag = <<"r">>
    /\ ChangeOf(realTimeChanges, inventory[1].id) = 1
    /\ LET newId == FreshId(UsedIds(inventory, realTimeChanges, selectedItem))
           merged == AddedInventory(inventory, newId, <<" ", "a">>, 1, <<"r", " ">>)
           created == AddedInventory(inventory, newId, <<" ", "a">>, 1, <<" ">>)
       IN  /\ Len(merged) = 1
           /\ merged[1].quantity = inventory[1].quantity + 1
           /\ AddedChanges(inventory, realTimeChanges, newId,
                           <<" ", "a">>, 1, <<"r", " ">>)[inventory[1].id] = 2
           /\ Len(created) = 2
           /\ AddedChanges(inventory, realTimeChanges, newId,
                           <<" ", "a">>, 1, <<" ">>)[created[2].id] = 0

\* C20: in the revisions whose import gives every row the id
\* Date.now().toString(), the items of the list have pairwise distinct ids in
\* every reachable state, the items of one import batch included.
C20_IdsPairwiseDistinct ==
    \A i, j \in IndexSet(inventory) : inventory[i].id = inventory[j].id => i = j

\* C21: in the earlier revision, a quantity change adds to the ledger entry
\* of an item exactly what it adds to the quantity of that item, also when
\* the decrement is clamped at 0 or the id is not in the list (stated of the
\* lists whose ids are distinct, where an id names one item).
C21_EarlierLedgerFollowsAppliedChange ==
    [][(/\ Cardinality(ItemIds(inventory)) = Len(inventory)
        /\ \E id \in Ids, change \in ChangeInputs : Earlier_handleQuantityChange(id, change))
          => \A i \in IndexSet(inventory) :
                ChangeOf(realTimeChanges', inventory[i].id)
                        - ChangeOf(realTimeChanges, inventory[i].id)
                    = inventory'[i].quantity - inventory[i].quantity]_vars

\* C22: an item id that is in the list stays in the list in every step but
\* the confirmation of a delete request for that item; no other event, the
\* completion of the startup load included, removes it.
C22_OnlyConfirmedDeleteRemoves ==
    [][\A id \in ItemIds(inventory) :
          id \notin ItemIds(inventory')
              => isDeleteConfirmationOpen /\ selectedItem = id]_vars

\* the startup load has not returned yet
LoadPending == \E k \in 1..Len(transactions) : transactions[k].mode = "readonly"

\* C23: at startup on a store that holds items, with no user operation, the
\* load returns the persisted items, the list ends up equal to them, and the
\* store is never left without them: while the load is pending the store
\* holds items, and once the load has returned them every item of the list
\* is in the store.
C23_StartupKeepsPersistedItems ==
    /\ LoadPending => store # NoStore /\ inventory = <<>>
    /\ ~LoadPending =>
          \A i \in IndexSet(inventory) :
              /\ inventory[i].id \in DOMAIN store
              /\ store[inventory[i].id] = inventory[i]

\* C24: the writes that overlap end in the order they were started: the
\* newest write in flight is the write of the current list, and when a write
\* commits and leaves no write in flight the store is the one the current
\* list is saved as; the write of an older list is never the last to land.
C24_LatestWriteLandsLast ==
    [][/\ PendingSaves # <<>>
            => PendingSaves[Len(PendingSaves)].inventory = inventory
       /\ (saveInventoryToDB /\ PendingSaves' = <<>>)
            => store' = SavedStore(inventory')
      ]_vars

\* C24 witness: two writes of different lists are in flight, the older one
\* of a list that the store does not hold and the current list is not, and
\* the newer one of the current list, which holds an item
C24_Witness ==
    /\ Len(transactions) = 2
    /\ Len(PendingSaves) = 2
    /\ transactions[1].inventory # transactions[2].inventory
    /\ SavedStore(transactions[1].inventory) # store
    /\ transactions[2].inventory = inventory
    /\ Len(inventory) >= 1
    /\ SavedStore(inventory) # store

\* the quantity of the item with this id
QuantityOf(inv, id) == inv[FindById(inv, id)].quantity

\* the quantity an item that this step put into the list was created with:
\* the quantity Add was given, or the quantity of the row that Import pushed
\* (rows that follow it in the file may have been merged into it since)
CreatedQuantities(id) ==
    LET item == inventory'[FindById(inventory', id)]
    IN  {item.quantity : n \in {n \in NameInputs : \E q \in QuantityInputs, t \in TagInputs :
                                                      handleAddItem(n, q, t)}}
        \cup
        {ParsedQuantity(row.quantity) :
            row \in UNION {LET rows == AcceptedRows(results.data)
                               hits == {k \in 1..Len(rows) :
                                           /\ RowName(rows[k]) = item.name
                                           /\ RowTag(rows[k]) = OrEmpty(item.tag)}
                           IN  {rows[k] : k \in {h \in hits : \A other \in hits : h <= other}} :
                           results \in {r \in ParseResults \cup StoredFiles :
                                            ~r.errors /\ handleImportCSV(r)}}}

\* C25: once the startup load is done, the ledger entry of an item (0 when
\* absent) is its quantity minus the quantity it was loaded or created with:
\* a step adds to the entry of an item that stays in the list what it adds to
\* its quantity, and gives an item that it puts into the list the entry of
\* its quantity minus the quantity it was created with.
C25_LedgerIsQuantityMinusInitial ==
    [][~LoadPending =>
          \A id \in ItemIds(inventory') :
              IF id \in ItemIds(inventory)
              THEN ChangeOf(realTimeChanges', id) - ChangeOf(realTimeChanges, id)
                       = QuantityOf(inventory', id) - QuantityOf(inventory, id)
              ELSE CreatedQuantities(id)
                       = {QuantityOf(inventory', id) - ChangeOf(realTimeChanges', id)}
      ]_vars


\* C25 witness: the load is done; an item that was loaded is in the list with
\* another quantity than the store still holds for it, its ledger entry is
\* the difference, and a second item that was created since has an entry too
C25_Witness ==
    /\ ~LoadPending
    /\ Len(inventory) = 2
    /\ \E i, j \in IndexSet(inventory) :
          /\ i # j
          /\ inventory[i].id \in DOMAIN store
          /\ store[inventory[i].id].name = inventory[i].name
          /\ store[inventory[i].id].quantity # inventory[i].quantity
          /\ ChangeOf(realTimeChanges, inventory[i].id)
                 = inventory[i].quantity - store[inventory[i].id].quantity
          /\ inventory[j].id \notin DOMAIN store
          /\ ChangeOf(realTimeChanges, inventory[j].id) # 0


\* C26: in the lists reached from the empty list by Add, AdjustQuantity,
\* Delete and Import, without Edit, no two items have the same name and the
\* same absent-normalized tag.
C26_NoDuplicateIdentityWithoutEdit == NoDuplicateIdentity(inventory)

\* C26 witness: the list holds two items of one name, one without a tag and
\* one with a tag, and both have been added to or imported into again
C26_Witness ==
    /\ Len(inventory) = 2
    /\ inventory[1].name = inventory[2].name
    /\ \E i, j \in IndexSet(inventory) :
          /\ inventory[i].tag = Undefined
          /\ inventory[j].tag # Undefined
          /\ ChangeOf(realTimeChanges, inventory[i].id) > 0
          /\ ChangeOf(realTimeChanges, inventory[j].id) > 0


\* C27: every key of the ledger is the id of an item of the list, in every
\* reachable state, the states after the startup load included: no ledger
\* entry outlives its item.
C27_LedgerKeysAreItemIds == DOMAIN realTimeChanges \subseteq ItemIds(inventory)

\* C27 witness: the load is about to return; the list holds an item that was
\* added meanwhile, with its ledger entry, and the store does not hold it:
\* the load drops the item, and the entry with it
C27_Witness ==
    /\ transactions # <<>>
    /\ Head(transactions).mode = "readonly"
    /\ \E i \in IndexSet(inventory) :
          /\ inventory[i].id \in DOMAIN realTimeChanges
          /\ \A id \in DOMAIN store : store[id].tag # inventory[i].tag
    /\ store # NoStore


\* C28: a click on the header of the sort column keeps the column and turns
\* the direction into the other of asc and desc (so a second click restores
\* it); a click on another column makes it the sort column with the
\* direction asc; a click changes neither the list nor the ledger.
C28_SortClickStateMachine ==
    [][\A column \in SortColumns :
          handleSort(column) =>
              /\ sortDirection \in {"asc", "desc"}
              /\ column = sortColumn =>
                    /\ sortColumn' = sortColumn
                    /\ sortDirection' \in {"asc", "desc"} \ {sortDirection}
              /\ column # sortColumn =>
                    /\ sortColumn' = column
                    /\ sortDirection' = "asc"
              /\ UNCHANGED <<inventory, realTimeChanges>>
      ]_vars

\* C28 witness: the page, which starts sorted by name ascending, is sorted by
\* tag descending: the tag header was clicked and clicked again
C28_Witness ==
    /\ sortColumn = "tag"
    /\ sortDirection = "desc"
    /\ Len(inventory) >= 2


\* the list and the ledger differ from the state's in the item id at most
OnlyChanged(id, inv, changes) ==
    /\ Len(inv) = Len(inventory)
    /\ \A i \in IndexSet(inventory) :
          /\ inv[i].id = inventory[i].id
          /\ inventory[i].id # id => inv[i] = inventory[i]
    /\ DOMAIN changes \ {id} = DOMAIN realTimeChanges \ {id}
    /\ \A other \in DOMAIN realTimeChanges \ {id} :
          changes[other] = realTimeChanges[other]

\* C29: Edit, AdjustQuantity and a merging Add change the targeted item
\* only: the number of the items, their order and ids, the name, quantity
\* and tag of every other item and the ledger entries of the other ids are
\* as they were.
C29_OnlyTheTargetChanges ==
    \A id \in ItemIds(inventory) :
        /\ \A n \in NameInputs, q \in QuantityInputs, t \in TagInputs :
              OnlyChanged(id, UpdatedInventory(inventory, id, n, q, t),
                          UpdatedChanges(inventory, realTimeChanges, id, q))
        /\ \A change \in ChangeInputs :
              OnlyChanged(id, ChangedInventory(inventory, id, change),
                          ChangedChanges(inventory, realTimeChanges, id, change))
        /\ \A n \in NameInputs, q \in QuantityInputs, t \in TagInputs :
              LET existingItemIndex == FindIndex(inventory, Trim(n), TrimOrEmpty(t))
                  newId == FreshId(UsedIds(inventory, realTimeChanges, selectedItem))
              IN  (/\ ~AddRejected(n, q)
                   /\ existingItemIndex # NotFound
                   /\ inventory[existingItemIndex].id = id)
                      => OnlyChanged(id, AddedInventory(inventory, newId, n, q, t),
                                     AddedChanges(inventory, realTimeChanges, newId, n, q, t))

\* C29 witness: the list holds two items of one name, each with a ledger
\* entry; the quantity of the second can be lowered and that of the first
\* is another one
C29_Witness ==
    /\ NoDialogOpen
    /\ Len(inventory) = 2
    /\ inventory[1].name = inventory[2].name
    /\ inventory[1].quantity # inventory[2].quantity - 1
    /\ inventory[2].quantity > 0
    /\ ChangeOf(realTimeChanges, inventory[1].id) # 0
    /\ ChangeOf(realTimeChanges, inventory[2].id) # 0
    /\ ChangedInventory(inventory, inventory[2].id, -1)[1] = inventory[1]
    /\ ChangedInventory(inventory, inventory[2].id, -1)[2].quantity
           = inventory[2].quantity - 1


\* C30: in the revision with auto-clear, once every pending timer has fired
\* the ledger has no entry; and while the timer of an adjustment of an item
\* has not fired, the ledger has the entry of that item: the timer of an
\* earlier adjustment does not erase the change of a later one.
C30_TimersClearOnlyTheirOwnChange ==
    /\ timers = <<>> => realTimeChanges = NoChanges
    /\ \A k \in 1..Len(timers) : timers[k] \in DOMAIN realTimeChanges
====
